---- MODULE Spec2Model ----
(***************************************************************************)
(* gitlab-registry-pruner (main.go): the filter pipeline, the per-cluster  *)
(* usage correlation and the confirmation/deletion stage of main().        *)
(*                                                                         *)
(* Strings are sequences of one-character strings, so that formatting,     *)
(* prefix stripping, line reading and pattern matching are computed        *)
(* character by character.  Instants are whole days.                       *)
(***************************************************************************)
EXTENDS Integers, Sequences, FiniteSets, TLC

VARIABLES
    Cfg,        \* the parsed flags (global Cfg)
    fetched,    \* the catalog as fetched (result of setImageUploadDate), kept for reference
    images,     \* the slice `images` of main(): sequence of Image records
    pc,         \* position of main()
    wg,         \* the WaitGroup counter
    task,       \* per kubeconfig index: the state of its setImagesClusterUsage goroutine
    stdout,     \* what has been printed, by kind
    text,       \* the line returned by reader.ReadString
    calls,      \* the registry calls of the delete process, in the order issued
    ignored,    \* errors returned by a call and discarded by the caller
    idx         \* range index of the loop main() is in (setImageDigest, deleteImages)

vars == <<Cfg, fetched, images, pc, wg, task, stdout, text, calls, ignored, idx>>

----------------------------------------------------------------------------
(* Bounds of the model *)

\* largest number of tags in the fetched catalog
MaxImages == 2
\* the instant of the run, in days; creation dates range over 0..MaxTime
MaxTime == 2

----------------------------------------------------------------------------
(* Strings *)

HasPrefix(s, p) == Len(p) <= Len(s) /\ SubSeq(s, 1, Len(p)) = p

\* index of the first occurrence of old in s, 0 when there is none
Index(s, old) ==
    LET hits == {k \in 1..(Len(s) - Len(old) + 1) : SubSeq(s, k, k + Len(old) - 1) = old}
    IN  IF hits = {} THEN 0 ELSE CHOOSE k \in hits : \A j \in hits : k <= j

\* strings.Replace(s, old, new, 1)
ReplaceFirst(s, old, new) ==
    LET k == Index(s, old)
    IN  IF k = 0 THEN s
        ELSE SubSeq(s, 1, k - 1) \o new \o SubSeq(s, k + Len(old), Len(s))

Https == <<"h", "t", "t", "p", "s", ":", "/", "/">>
Http == <<"h", "t", "t", "p", ":", "/", "/">>

\* Cfg.RegistryURLShort as main() computes it from Cfg.RegistryURL
RegistryURLShort(url) == ReplaceFirst(ReplaceFirst(url, Https, <<>>), Http, <<>>)

\* fmt.Sprintf("%s/%s:%s", Cfg.RegistryURLShort, image.Name, image.Tag)
ImageName(short, image) == short \o <<"/">> \o image.Name \o <<":">> \o image.Tag

----------------------------------------------------------------------------
(* regexp.MatchString on the pattern syntax used here: literal characters, *)
(* "." for any character, a leading "^", a trailing "$"; a parenthesis     *)
(* that is not closed does not compile.  A match may start anywhere.       *)

RECURSIVE MatchHere(_, _)
MatchHere(p, s) ==
    IF p = <<>> THEN TRUE
    ELSE IF p = <<"$">> THEN s = <<>>
    ELSE IF s = <<>> THEN FALSE
    ELSE IF Head(p) = "." \/ Head(p) = Head(s) THEN MatchHere(Tail(p), Tail(s))
    ELSE FALSE

Range(f) == {f[j] : j \in DOMAIN f}

Compiles(p) == \A k \in 1..Len(p) : p[k] \notin {"(", ")"}

MatchString(p, s) ==
    IF ~Compiles(p) THEN [matched |-> FALSE, err |-> TRUE]
    ELSE IF p # <<>> /\ Head(p) = "^"
         THEN [matched |-> MatchHere(Tail(p), s), err |-> FALSE]
         ELSE [matched |-> \E k \in 0..Len(s) : MatchHere(p, SubSeq(s, k + 1, Len(s))),
               err |-> FALSE]

----------------------------------------------------------------------------
(* Inputs *)

V1 == <<"v", "1">>
V2 == <<"v", "2">>
V10 == <<"v", "1", ".", "0">>
Tags == {V1, V2, V10}

Repository == <<"a">>
RegistryURL == Https \o <<"r">>

Patterns == {<<>>, <<"^", "v", "1">>, <<"1", "$">>, <<"v", ".", ".">>, <<"(", "v">>}

\* the instant returned by time.Now()
Now == MaxTime

\* getImages: one Image per tag of the tag list, Name the repository
NewImage(tag, created) ==
    [Name |-> Repository, Tag |-> tag, Digest |-> <<>>, Created |-> created,
     UsedInCluster |-> FALSE, mu |-> 0]

TagLists == {l \in UNION {[1..n -> Tags] : n \in 0..MaxImages} :
                \A i, j \in 1..Len(l) : i # j => l[i] # l[j]}

Catalogs(times) ==
    UNION {{[k \in 1..Len(l) |-> NewImage(l[k], c[k])] : c \in [1..Len(l) -> times]} :
           l \in TagLists}

----------------------------------------------------------------------------
(* The filter stages of main() *)

\* a comparison that lets the threshold instant itself through
NotAfter(t, u) == t <= u

\* time.Time.Before
Before(t, u) == t < u

\* time.Now().AddDate(0, 0, Cfg.MinExpiry * -1)
MinExpiryDate == Now - Cfg.MinExpiry

KeepOld(image) == Before(image.Created, MinExpiryDate)

KeepUnmatched(image) == ~MatchString(Cfg.RegexPattern, image.Tag).matched

\* the condition under which a stage's loop keeps an entry
Keep(stage, image) == IF stage = "age" THEN KeepOld(image) ELSE KeepUnmatched(image)

\* the loop without the final images = images[:i]: the tail of the slice stays
RECURSIVE CompactKeepsTail(_, _, _, _)
CompactKeepsTail(arr, k, i, stage) ==
    IF k > Len(arr) THEN arr
    ELSE IF Keep(stage, arr[k])
         THEN CompactKeepsTail([arr EXCEPT ![i + 1] = arr[k]], k + 1, i + 1, stage)
         ELSE CompactKeepsTail(arr, k + 1, i, stage)

\* the in-place compaction loop: images[i] = image; i++ for the entries kept,
\* then images = images[:i].  k is the range index, i the write index.
RECURSIVE Compact(_, _, _, _)
Compact(arr, k, i, stage) ==
    IF k > Len(arr) THEN SubSeq(arr, 1, i)
    ELSE IF Keep(stage, arr[k])
         THEN Compact([arr EXCEPT ![i + 1] = arr[k]], k + 1, i + 1, stage)
         ELSE Compact(arr, k + 1, i, stage)

\* the tags printed by the else branch of a stage
Skipped(arr, stage) == {arr[k].Tag : k \in {j \in 1..Len(arr) : ~Keep(stage, arr[j])}}

\* whether the pattern stage runs at all
PatternGiven == Cfg.RegexPattern # <<>>

AgeFilter ==
    /\ pc = "age"
    /\ images' = Compact(images, 1, 0, "age")
    /\ stdout' = [stdout EXCEPT !.tooYoung = Skipped(images, "age")]
    /\ pc' = "regexp"
    /\ UNCHANGED <<Cfg, fetched, wg, task, text, calls, ignored, idx>>

RegexpFilter ==
    /\ pc = "regexp"
    /\ IF PatternGiven
       THEN /\ images' = Compact(images, 1, 0, "regexp")
            /\ stdout' = [stdout EXCEPT !.matchesRegexp = Skipped(images, "regexp")]
            /\ ignored' = IF images # <<>> /\ MatchString(Cfg.RegexPattern, images[1].Tag).err
                          THEN ignored \cup {"regexp"} ELSE ignored
       ELSE UNCHANGED <<images, stdout, ignored>>
    /\ pc' = "spawn"
    /\ UNCHANGED <<Cfg, fetched, wg, task, text, calls, idx>>

NoOutput ==
    [tooYoung |-> {}, matchesRegexp |-> {}, used |-> {}, willDelete |-> <<>>,
     deleted |-> <<>>]

Start(cfg, catalog) ==
    /\ Cfg = cfg
    /\ fetched = catalog
    /\ images = catalog
    /\ pc = "age"
    /\ wg = 0
    /\ task = <<>>
    /\ stdout = NoOutput
    /\ text = <<>>
    /\ calls = <<>>
    /\ ignored = {}
    /\ idx = 0

----------------------------------------------------------------------------
(* What the cluster API returns: a cluster is its list of namespaces, each *)
(* with its list of pods, each with the image strings of its containers.   *)

Short == RegistryURLShort(Cfg.RegistryURL)

Ref(tag) == ImageName(RegistryURLShort(RegistryURL), [Name |-> Repository, Tag |-> tag])

Pod(name, containers) == [Name |-> name, Containers |-> containers]

Namespace(name, pods) == [Name |-> name, Pods |-> pods]

\* an image of another repository, and the v1 reference with another letter case
Foreign == <<"r", "/", "b", ":", "v", "1">>
UpperV1 == <<"r", "/", "a", ":", "V", "1">>

Clusters ==
    { <<>>,
      <<Namespace("n1", <<Pod("p1", <<Ref(V1)>>), Pod("p2", <<Ref(V1), Ref(V2)>>)>>)>>,
      <<Namespace("n1", <<Pod("p1", <<Foreign, UpperV1>>)>>),
        Namespace("n2", <<Pod("p1", <<Ref(V10)>>), Pod("p2", <<Ref(V2), Ref(V2)>>)>>)>> }

----------------------------------------------------------------------------
(* setImagesClusterUsage, one goroutine per kubeconfig *)

Tasks == DOMAIN task

Alive == pc # "aborted"

NewTask ==
    [pc |-> "start", nss |-> <<>>, n |-> 0, id |-> 0, p |-> 0, c |-> 0, wrote |-> {}]

PodsOf(s) == s.nss[s.n].Pods

ContainersOf(s) == PodsOf(s)[s.p].Containers

\* a comparison that accepts any container image the reference is a prefix of
SameImagePrefix(imageName, contImage) == HasPrefix(contImage, imageName)

\* imageName == cont.Image
SameImage(imageName, contImage) == imageName = contImage

\* The loop heads of the four nested loops, which touch nothing shared: from
\* position s on to the next step that does (listing pods, Lock, the read of
\* the flag after a pod, the return).
RECURSIVE Advance(_)
Advance(s) ==
    CASE s.pc = "namespaces" ->
            IF s.n > Len(s.nss) THEN [s EXCEPT !.pc = "return"]
            ELSE [s EXCEPT !.pc = "listpods"]
      [] s.pc = "images" ->
            IF s.id > Len(images)
            THEN Advance([s EXCEPT !.pc = "namespaces", !.n = @ + 1])
            ELSE Advance([s EXCEPT !.pc = "pods", !.p = 1])
      [] s.pc = "pods" ->
            IF s.p > Len(PodsOf(s))
            THEN Advance([s EXCEPT !.pc = "images", !.id = @ + 1])
            ELSE Advance([s EXCEPT !.pc = "containers", !.c = 1])
      [] s.pc = "containers" ->
            IF s.c > Len(ContainersOf(s)) THEN [s EXCEPT !.pc = "check"]
            ELSE IF SameImage(ImageName(Short, images[s.id]), ContainersOf(s)[s.c])
                 THEN [s EXCEPT !.pc = "lock"]
                 ELSE Advance([s EXCEPT !.c = @ + 1])
      [] OTHER -> s

\* panic(err) in a goroutine: the deferred wg.Done() runs, then the runtime
\* ends the process (Crash)
Panic(t) ==
    /\ task' = [task EXCEPT ![t].pc = "panicked"]
    /\ wg' = wg - 1
    /\ UNCHANGED <<Cfg, fetched, images, pc, stdout, text, calls, ignored, idx>>

Crash ==
    /\ Alive
    /\ \E t \in Tasks : task[t].pc = "panicked"
    /\ pc' = "aborted"
    /\ UNCHANGED <<Cfg, fetched, images, wg, task, stdout, text, calls, ignored, idx>>

\* BuildConfigFromFlags and NewForConfig
TaskConnect(t) ==
    /\ Alive /\ task[t].pc = "start"
    /\ \/ /\ task' = [task EXCEPT ![t].pc = "listns"]
          /\ UNCHANGED <<Cfg, fetched, images, pc, wg, stdout, text, calls, ignored, idx>>
       \/ Panic(t)

\* ns.List
TaskListNamespaces(t) ==
    /\ Alive /\ task[t].pc = "listns"
    /\ \/ /\ \E cluster \in Clusters :
                task' = [task EXCEPT ![t] =
                            Advance([@ EXCEPT !.nss = cluster, !.n = 1, !.pc = "namespaces"])]
          /\ UNCHANGED <<Cfg, fetched, images, pc, wg, stdout, text, calls, ignored, idx>>
       \/ Panic(t)

\* podsInterface.List
TaskListPods(t) ==
    /\ Alive /\ task[t].pc = "listpods"
    /\ \/ /\ task' = [task EXCEPT ![t] = Advance([@ EXCEPT !.id = 1, !.pc = "images"])]
          /\ UNCHANGED <<Cfg, fetched, images, pc, wg, stdout, text, calls, ignored, idx>>
       \/ Panic(t)

\* images[id].Lock()
TaskLock(t) ==
    /\ Alive /\ task[t].pc = "lock"
    /\ images[task[t].id].mu = 0
    /\ images' = [images EXCEPT ![task[t].id].mu = t]
    /\ task' = [task EXCEPT ![t].pc = "locked"]
    /\ UNCHANGED <<Cfg, fetched, pc, wg, stdout, text, calls, ignored, idx>>

UsageNote(t, s) ==
    [cluster |-> t, namespace |-> s.nss[s.n].Name, pod |-> PodsOf(s)[s.p].Name,
     tag |-> images[s.id].Tag]

\* images[id].UsedInCluster = true; images[id].Unlock(); fmt.Printf(... is used in ...)
TaskMark(t) ==
    /\ Alive /\ task[t].pc = "locked"
    /\ images' = [images EXCEPT ![task[t].id].UsedInCluster = TRUE, ![task[t].id].mu = 0]
    /\ stdout' = [stdout EXCEPT !.used = @ \cup {UsageNote(t, task[t])}]
    /\ task' = [task EXCEPT ![t] =
                  Advance([@ EXCEPT !.c = @ + 1, !.pc = "containers",
                                    !.wrote = @ \cup {task[t].id}])]
    /\ UNCHANGED <<Cfg, fetched, pc, wg, text, calls, ignored, idx>>

\* a break taken after the first pod whatever the flag
LeavePodsAlways(image) == TRUE

\* if image.UsedInCluster { break }
LeavePods(image) == image.UsedInCluster

\* The read of image.UsedInCluster after a pod is made without the lock.  A
\* task that has set the flag itself reads true; a flag set only by other
\* tasks is read with no synchronisation in between, and the read may yield
\* the value before or after their write.
FlagReads(t, id) ==
    IF images[id].UsedInCluster /\ id \notin task[t].wrote THEN {TRUE, FALSE}
    ELSE {images[id].UsedInCluster}

TaskCheck(t) ==
    /\ Alive /\ task[t].pc = "check"
    /\ \E seen \in FlagReads(t, task[t].id) :
          task' = [task EXCEPT ![t] =
                     IF LeavePods([images[@.id] EXCEPT !.UsedInCluster = seen])
                     THEN Advance([@ EXCEPT !.id = @ + 1, !.pc = "images"])
                     ELSE Advance([@ EXCEPT !.p = @ + 1, !.pc = "pods"])]
    /\ UNCHANGED <<Cfg, fetched, images, pc, wg, stdout, text, calls, ignored, idx>>

\* the return: the deferred wg.Done()
TaskReturn(t) ==
    /\ Alive /\ task[t].pc = "return"
    /\ task' = [task EXCEPT ![t].pc = "done"]
    /\ wg' = wg - 1
    /\ UNCHANGED <<Cfg, fetched, images, pc, stdout, text, calls, ignored, idx>>

----------------------------------------------------------------------------
(* main() from the fan-out on *)

\* wg.Add(len(Cfg.KubeConfig)); go setImagesClusterUsage(...) per kubeconfig
Spawn ==
    /\ pc = "spawn"
    /\ wg' = Len(Cfg.KubeConfig)
    /\ task' = [t \in 1..Len(Cfg.KubeConfig) |-> NewTask]
    /\ pc' = "wait"
    /\ UNCHANGED <<Cfg, fetched, images, stdout, text, calls, ignored, idx>>

\* a Wait that does not block
WaitReturnsAtOnce == TRUE

\* when wg.Wait() returns
WaitReturns == wg = 0

Wait ==
    /\ pc = "wait"
    /\ WaitReturns
    /\ pc' = "report"
    /\ UNCHANGED <<Cfg, fetched, images, wg, task, stdout, text, calls, ignored, idx>>

RECURSIVE Unused(_)
Unused(arr) ==
    IF arr = <<>> THEN <<>>
    ELSE (IF ~Head(arr).UsedInCluster THEN <<Head(arr).Tag>> ELSE <<>>) \o Unused(Tail(arr))

\* the "Image will be deleted" loop
Report ==
    /\ pc = "report"
    /\ stdout' = [stdout EXCEPT !.willDelete = Unused(images)]
    /\ pc' = "confirm"
    /\ UNCHANGED <<Cfg, fetched, images, wg, task, text, calls, ignored, idx>>

LF == "\n"
CR == "\r"
Yes == <<"y", "e", "s">>

\* what standard input may hold
StdinContents ==
    { <<>>, Yes, Yes \o <<LF>>, Yes \o <<CR, LF>>, <<"Y", "e", "s", LF>>,
      <<"n", "o", LF>>, <<LF>>, <<" ">> \o Yes \o <<LF>> }

\* bufio.Reader.ReadString(delim): up to and including the first delim, or
\* what there is and an error
ReadString(in, delim) ==
    LET n == Index(in, <<delim>>)
    IN  IF n = 0 THEN [text |-> in, err |-> TRUE]
        ELSE [text |-> SubSeq(in, 1, n), err |-> FALSE]

\* a check that accepts any line starting with yes
ConfirmedByPrefix(line) == HasPrefix(line, Yes)

\* text != "yes\n" is false
Confirmed(line) == line = Yes \o <<LF>>

Confirm ==
    /\ pc = "confirm"
    /\ IF ~Cfg.DeleteImages
       THEN /\ pc' = "done"
            /\ UNCHANGED <<text, ignored, idx>>
       ELSE \E in \in StdinContents :
               LET r == ReadString(in, LF)
               IN  /\ text' = r.text
                   /\ ignored' = IF r.err THEN ignored \cup {"stdin"} ELSE ignored
                   /\ IF Confirmed(r.text)
                      THEN pc' = "digest" /\ idx' = 1
                      ELSE pc' = "done" /\ UNCHANGED idx
    /\ UNCHANGED <<Cfg, fetched, images, wg, task, stdout, calls>>

StatusOK == 200
StatusAccepted == 202
StatusNotFound == 404

DigestOf(tag) == <<"d">> \o tag

\* the responses of the registry: err is a failed cli.Do or body read, json
\* whether the body parses, digest the Docker-Content-Digest header
Response(err, status, json, digest) ==
    [err |-> err, status |-> status, json |-> json, digest |-> digest]

GetResponses(tag) ==
    { Response(FALSE, StatusOK, TRUE, DigestOf(tag)),
      Response(FALSE, StatusNotFound, TRUE, <<>>),
      Response(FALSE, StatusNotFound, FALSE, <<>>),
      Response(FALSE, 500, TRUE, <<>>),
      Response(TRUE, 0, FALSE, <<>>) }

DeleteResponses ==
    { Response(FALSE, StatusAccepted, TRUE, <<>>),
      Response(FALSE, StatusNotFound, TRUE, <<>>),
      Response(FALSE, 500, TRUE, <<>>),
      Response(TRUE, 0, FALSE, <<>>) }

\* a sendHTTPRequest that only logs every unexpected status, as it does for 404
SendPanicsOnErrOnly(resp) == resp.err

\* sendHTTPRequest panics: on a failed request, or on a status that is neither
\* 200 nor 202 unless it is 404
SendPanics(resp) ==
    \/ resp.err
    \/ /\ resp.status # StatusOK /\ resp.status # StatusAccepted
       /\ resp.status # StatusNotFound

Call(method, image, ref, resp) ==
    [method |-> method, tag |-> image.Tag, ref |-> ref, used |-> image.UsedInCluster,
     err |-> resp.err, status |-> resp.status]

\* one iteration of setImageDigest's loop
SetImageDigest ==
    /\ pc = "digest"
    /\ IF idx > Len(images)
       THEN /\ pc' = "delete"
            /\ idx' = 1
            /\ UNCHANGED <<images, calls>>
       ELSE \E resp \in GetResponses(images[idx].Tag) :
               /\ calls' = Append(calls, Call("GET", images[idx], images[idx].Tag, resp))
               /\ IF SendPanics(resp) \/ ~resp.json
                  THEN pc' = "aborted" /\ UNCHANGED <<images, idx>>
                  ELSE /\ images' = [images EXCEPT ![idx].Digest = resp.digest]
                       /\ idx' = idx + 1
                       /\ UNCHANGED pc
    /\ UNCHANGED <<Cfg, fetched, wg, task, stdout, text, ignored>>

\* one iteration of deleteImages' loop
DeleteImages ==
    /\ pc = "delete"
    /\ IF idx > Len(images)
       THEN /\ pc' = "done"
            /\ UNCHANGED <<calls, stdout, idx>>
       ELSE \E resp \in DeleteResponses :
               /\ calls' = Append(calls, Call("DELETE", images[idx], images[idx].Digest, resp))
               /\ IF SendPanics(resp)
                  THEN pc' = "aborted" /\ UNCHANGED <<stdout, idx>>
                  ELSE /\ stdout' = [stdout EXCEPT !.deleted = Append(@, images[idx].Tag)]
                       /\ idx' = idx + 1
                       /\ UNCHANGED pc
    /\ UNCHANGED <<Cfg, fetched, images, wg, task, text, ignored>>

----------------------------------------------------------------------------
(* Specifications *)

\* the whole run, from the filter stages to the end of the delete process
Configs ==
    [RegistryURL : {RegistryURL}, Repository : {Repository},
     KubeConfig : {<<>>, <<"k1">>, <<"k1", "k2">>},
     MinExpiry : {1}, RegexPattern : {<<>>, <<"(", "v">>}, DeleteImages : BOOLEAN]

Init == \E cfg \in Configs : \E catalog \in Catalogs({0, Now}) : Start(cfg, catalog)

Next ==
    \/ AgeFilter
    \/ RegexpFilter
    \/ Spawn
    \/ \E t \in Tasks : TaskConnect(t)
    \/ \E t \in Tasks : TaskListNamespaces(t)
    \/ \E t \in Tasks : TaskListPods(t)
    \/ \E t \in Tasks : TaskLock(t)
    \/ \E t \in Tasks : TaskMark(t)
    \/ \E t \in Tasks : TaskCheck(t)
    \/ \E t \in Tasks : TaskReturn(t)
    \/ Crash
    \/ Wait
    \/ Report
    \/ Confirm
    \/ SetImageDigest
    \/ DeleteImages

Spec == Init /\ [][Next]_vars

\* the two filter stages alone, over every catalog, cutoff and pattern
FilterConfigs ==
    [RegistryURL : {RegistryURL}, Repository : {Repository}, KubeConfig : {<<>>},
     MinExpiry : 0..MaxTime, RegexPattern : Patterns, DeleteImages : {FALSE}]

InitFilter == \E cfg \in FilterConfigs : \E catalog \in Catalogs(0..MaxTime) : Start(cfg, catalog)

NextFilter == AgeFilter \/ RegexpFilter

SpecFilter == InitFilter /\ [][NextFilter]_vars

----------------------------------------------------------------------------
(* Properties *)

TagsOf(arr) == {arr[j].Tag : j \in 1..Len(arr)}

Old(e) == e.Created < Now - Cfg.MinExpiry

Matches(e) == MatchString(Cfg.RegexPattern, e.Tag).matched

Eligible(e) == Old(e) /\ (Cfg.RegexPattern = <<>> \/ ~Matches(e))

\* every task of the fan-out has returned normally
Returned ==
    /\ pc \notin {"age", "regexp", "spawn"}
    /\ \A t \in Tasks : task[t].pc = "done"

\* task t saw a container of pod p of namespace n with exactly the reference of e
MatchIn(t, n, p, e) ==
    \E c \in 1..Len(task[t].nss[n].Pods[p].Containers) :
        task[t].nss[n].Pods[p].Containers[c] =
            RegistryURLShort(Cfg.RegistryURL) \o <<"/">> \o e.Name \o <<":">> \o e.Tag

Referenced(e) ==
    \E t \in Tasks : \E n \in 1..Len(task[t].nss) :
        \E p \in 1..Len(task[t].nss[n].Pods) : MatchIn(t, n, p, e)

NoteFor(t, n, p, e) ==
    [cluster |-> t, namespace |-> task[t].nss[n].Name,
     pod |-> task[t].nss[n].Pods[p].Name, tag |-> e.Tag]

DeleteCalls == SelectSeq(calls, LAMBDA call : call.method = "DELETE")

Succeeded(call) == ~call.err /\ call.status \in {StatusOK, StatusAccepted}

\* C1: every digest lookup and every DELETE call of the delete process is for
\* an entry whose usedInCluster flag is false after the tasks have joined; an
\* entry marked used is never the subject of a call.
C1_OnlyUnusedDeleted == \A i \in 1..Len(calls) : ~calls[i].used

\* C2: unless the delete flag is set and the line read is exactly "yes\n",
\* no digest lookup and no DELETE call is issued, nothing is reported deleted
\* and main() never enters the delete process.
C2_ConfirmationGate ==
    (~Cfg.DeleteImages \/ text # <<"y", "e", "s", "\n">>) =>
        /\ calls = <<>>
        /\ stdout.deleted = <<>>
        /\ pc \notin {"digest", "delete"}
        /\ \A j \in 1..Len(images) : images[j].Digest = <<>>

C2_Witness ==
    /\ pc = "done" /\ Cfg.DeleteImages
    /\ text = <<"y", "e", "s", "\r", "\n">>
    /\ stdout.willDelete # <<>>

\* C3: once every cluster task has returned, an entry's flag is set exactly
\* when some container of some pod of some namespace of some cluster has an
\* image string equal to the entry's reference registryHost/name:tag.
C3_UsageCorrelation ==
    Returned => \A j \in 1..Len(images) :
                    images[j].UsedInCluster <=> Referenced(images[j])

\* two clusters, an entry referenced in one of them only, and an entry v1
\* left unmarked although a container runs v1.0
C3_Witness ==
    /\ Returned /\ Len(Cfg.KubeConfig) = 2
    /\ \E j \in 1..Len(images) :
          /\ images[j].UsedInCluster
          /\ \E t \in Tasks : \A n \in 1..Len(task[t].nss) :
                \A p \in 1..Len(task[t].nss[n].Pods) : ~MatchIn(t, n, p, images[j])
    /\ \E j \in 1..Len(images) :
          /\ images[j].Tag = V1 /\ ~images[j].UsedInCluster
          /\ \E t \in Tasks : \E n \in 1..Len(task[t].nss) :
                \E p \in 1..Len(task[t].nss[n].Pods) :
                   MatchIn(t, n, p, [images[j] EXCEPT !.Tag = V10])

\* C4: after the age stage the slice is the subsequence of the fetched catalog
\* created before the cutoff; after the pattern stage it is the subsequence of
\* entries created before the cutoff whose tag, when a pattern is given, does
\* not match it; the pattern stage reports only survivors of the age stage and
\* removes nothing when no pattern is given.
C4_FilterPipeline ==
    /\ pc = "regexp" => images = SelectSeq(fetched, Old)
    /\ pc = "spawn" =>
          /\ images = SelectSeq(fetched, Eligible)
          /\ stdout.tooYoung = {e.Tag : e \in {x \in Range(fetched) : ~Old(x)}}
          /\ stdout.matchesRegexp =
                IF Cfg.RegexPattern = <<>> THEN {}
                ELSE {e.Tag : e \in {x \in Range(fetched) : Old(x) /\ Matches(x)}}

C4_Witness ==
    /\ pc = "spawn"
    /\ stdout.tooYoung # {} /\ stdout.matchesRegexp # {}
    /\ Len(fetched) > Len(images)

\* C5 (as claimed): an entry created exactly at the threshold instant is
\* retained by the age stage.
C5_BoundaryRetained ==
    pc = "regexp" =>
        \A j \in 1..Len(fetched) :
            fetched[j].Created = Now - Cfg.MinExpiry => fetched[j] \in Range(images)

\* C5 (amended): an entry created exactly at the threshold instant is dropped
\* by the age stage and reported as too young.
C5_BoundaryDropped ==
    pc = "regexp" =>
        \A j \in 1..Len(fetched) :
            fetched[j].Created = Now - Cfg.MinExpiry =>
                /\ fetched[j] \notin Range(images)
                /\ fetched[j].Tag \in stdout.tooYoung

C5_Witness ==
    /\ pc = "regexp"
    /\ \E j \in 1..Len(fetched) : fetched[j].Created = Now - Cfg.MinExpiry
    /\ images # <<>>

\* C6: main() is past wg.Wait() (report, prompt, digest lookups, DELETE calls)
\* only when every task, one per kubeconfig, has finished.
C6_JoinBarrier ==
    (\/ pc \in {"report", "confirm", "digest", "delete", "done"}
     \/ stdout.willDelete # <<>> \/ text # <<>> \/ calls # <<>>) =>
        /\ Len(task) = Len(Cfg.KubeConfig)
        /\ \A t \in Tasks : task[t].pc \in {"done", "panicked"}
        /\ \A j \in 1..Len(images) : images[j].mu = 0

C6_Witness ==
    /\ pc = "report" /\ Len(Cfg.KubeConfig) = 2
    /\ \A t \in Tasks : task[t].pc = "done" /\ task[t].nss # <<>>
    /\ \E j \in 1..Len(images) : images[j].UsedInCluster

\* C7: an error that is not an HTTP 404 ends the run: after a pattern that
\* does not compile the run is aborted, and after a failed read of the
\* confirmation line it goes no further.
C7_FailFast ==
    /\ "regexp" \in ignored => pc = "aborted"
    /\ "stdin" \in ignored => pc \in {"done", "aborted"}

\* C8 (as claimed): a DELETE call that does not succeed is the last call, the
\* run is aborted and the entry is not reported as deleted.
C8_AnyFailureAborts ==
    \A i \in 1..Len(DeleteCalls) :
        ~Succeeded(DeleteCalls[i]) =>
            /\ i = Len(DeleteCalls) /\ pc = "aborted"
            /\ Len(stdout.deleted) = i - 1

\* C8 (amended): DELETE calls are issued in catalog order; one that fails with
\* anything but a 404 is the last call, aborts the run and is not reported as
\* deleted; one answered 200, 202 or 404 is reported as deleted.
C8_FatalFailureAborts ==
    /\ Len(DeleteCalls) <= Len(images)
    /\ \A i \in 1..Len(DeleteCalls) :
          /\ DeleteCalls[i].tag = images[i].Tag
          /\ DeleteCalls[i].ref = images[i].Digest
          /\ IF Succeeded(DeleteCalls[i])
                \/ (~DeleteCalls[i].err /\ DeleteCalls[i].status = StatusNotFound)
             THEN Len(stdout.deleted) >= i /\ stdout.deleted[i] = images[i].Tag
             ELSE /\ i = Len(DeleteCalls) /\ pc = "aborted"
                  /\ Len(stdout.deleted) = i - 1

C8_Witness ==
    /\ pc = "aborted" /\ Len(images) = 2
    /\ Len(DeleteCalls) = 1
    /\ DeleteCalls[1].status = 500

\* C9 (as claimed): when a task has returned, every pod with a container
\* matching an entry has its usage note for that entry.
C9_AllMatchesReported ==
    \A t \in Tasks : task[t].pc = "done" =>
        \A n \in 1..Len(task[t].nss) : \A p \in 1..Len(task[t].nss[n].Pods) :
            \A j \in 1..Len(images) :
                MatchIn(t, n, p, images[j]) => NoteFor(t, n, p, images[j]) \in stdout.used

\* C9 (amended): the first pod of every namespace has its usage note for every
\* entry it matches; the note of a later matching pod is missing only for an
\* entry that is marked used.
C9_ReportedUntilMarked ==
    \A t \in Tasks : task[t].pc = "done" =>
        \A n \in 1..Len(task[t].nss) : \A p \in 1..Len(task[t].nss[n].Pods) :
            \A j \in 1..Len(images) :
                MatchIn(t, n, p, images[j]) =>
                    /\ p = 1 => NoteFor(t, n, p, images[j]) \in stdout.used
                    /\ NoteFor(t, n, p, images[j]) \notin stdout.used =>
                          images[j].UsedInCluster

C9_Witness ==
    \E t \in Tasks :
        /\ task[t].pc = "done"
        /\ \E n \in 1..Len(task[t].nss) : \E j \in 1..Len(images) :
              /\ MatchIn(t, n, 1, images[j])
              /\ NoteFor(t, n, 1, images[j]) \in stdout.used
              /\ Len(task[t].nss[n].Pods) > 1
              /\ MatchIn(t, n, 2, images[j])
              /\ NoteFor(t, n, 2, images[j]) \notin stdout.used

\* C10: no task reads the flag of an entry without holding the entry's lock
\* while another task holds that lock to write the flag.
C10_NoRaceOnFlag ==
    \A t, u \in Tasks :
        (t # u /\ task[t].pc = "check" /\ task[u].pc = "locked") =>
            task[t].id # task[u].id

====
